---- MODULE Spec2Model ----
(***************************************************************************)
(* Model of polish_addresses_spark_parser:                                 *)
(*   process_gml.py         the XML -> GeoParquet pipeline (two modes)      *)
(*   download_and_unpack.py the unpacking of the downloaded archive         *)
(*                                                                         *)
(* Conventions.  A nullable SQL value is None (SQL NULL) or Some(v).  A    *)
(* Python string that the code inspects character by character (the run    *)
(* argument, an archive entry name) is a sequence of one-character         *)
(* strings.  A DataFrame is [cols, rows, raises]: Spark is lazy, so an     *)
(* error of row evaluation (FAILFAST read, WKT parsing) is carried in      *)
(* "raises" and surfaces at the first Spark action, df.count().            *)
(***************************************************************************)
EXTENDS Integers, Sequences, FiniteSets, TLC

VARIABLES argv, pc, mode, spark, xml, df, num_rows, output, failure,
          zip, to, files, dirs, zi, upc

pipeline_vars == <<argv, pc, mode, spark, xml, df, num_rows, output, failure>>
unzip_vars == <<zip, to, files, dirs, zi, upc>>
vars == <<argv, pc, mode, spark, xml, df, num_rows, output, failure,
          zip, to, files, dirs, zi, upc>>

(* ------------------------------ bounds --------------------------------- *)
MaxRecords == 2
MaxUnits == 5
MaxEntries == 2
MaxNameLen == 3

(* --------------------------- nullable values --------------------------- *)
None == <<>>
Some(v) == <<v>>
IsNull(v) == v = None
Get(v) == v[1]

(* ------------------------- Python str methods -------------------------- *)
Whitespace == {" ", "\t", "\n"}

UpperCase == <<"A","B","C","D","E","F","G","H","I","J","K","L","M",
               "N","O","P","Q","R","S","T","U","V","W","X","Y","Z">>
LowerCase == <<"a","b","c","d","e","f","g","h","i","j","k","l","m",
               "n","o","p","q","r","s","t","u","v","w","x","y","z">>

LowerChar(c) ==
    IF \E i \in 1..Len(UpperCase) : UpperCase[i] = c
    THEN LowerCase[CHOOSE i \in 1..Len(UpperCase) : UpperCase[i] = c]
    ELSE c

Lower(s) == [i \in 1..Len(s) |-> LowerChar(s[i])]

RECURSIVE LStrip(_)
LStrip(s) == IF s # <<>> /\ Head(s) \in Whitespace THEN LStrip(Tail(s)) ELSE s

RECURSIVE RStrip(_)
RStrip(s) ==
    IF s # <<>> /\ s[Len(s)] \in Whitespace
    THEN RStrip(SubSeq(s, 1, Len(s) - 1))
    ELSE s

StripLeftOnly(s) == LStrip(s)
Strip(s) == RStrip(LStrip(s))

(* ------------------------------ constants ------------------------------ *)
MODE_OVERTURE == <<"o","v","e","r","t","u","r","e">>
MODE_OSMPOLAND == <<"o","s","m","p","o","l","a","n","d">>
MODES == {MODE_OVERTURE, MODE_OSMPOLAND}

SchemaColumns ==
    {"gml:identifier", "prg-ad:idIIP", "prg-ad:cyklZycia", "prg-ad:waznyOd",
     "prg-ad:waznyDo", "prg-ad:jednostkaAdmnistracyjna", "prg-ad:miejscowosc",
     "prg-ad:czescMiejscowosci", "prg-ad:ulica", "prg-ad:numerPorzadkowy",
     "prg-ad:kodPocztowy", "prg-ad:status", "prg-ad:pozycja",
     "prg-ad:komponent", "prg-ad:obiektEMUiA"}

SRID_2180 == 2180
EPSG_4326 == 4326
RANGE_4 == 4

(* ----------------------- the input: address records -------------------- *)
(* One token of a gml:pos text: a number or a word that is no number.      *)
Num(n) == [k |-> "num", v |-> n]
Word == [k |-> "word", v |-> 0]
Tok(k) == [k |-> k, v |-> 0]

Unit(i) == Some("teryt" \o ToString(i))
Units(n) == Some([i \in 1..n |-> Unit(i - 1)])

ValidPos == Some(<<Num(5), Num(3)>>)

(* What varies between the records of an input document. *)
Shape(koniec, waznyDo, status, pos, units, wellformed) ==
    [koniec |-> koniec, waznyDo |-> waznyDo, status |-> status, pos |-> pos,
     units |-> units, wellformed |-> wellformed]

FilterShapes ==
    { Shape(k, w, s, ValidPos, Units(2), TRUE) :
        k \in {None, Some(7)}, w \in {None, Some(9)},
        s \in {None, Some("istniejacy"), Some("prognozowany")} }

PositionShapes ==
    { Shape(None, None, Some("istniejacy"), p, Units(2), TRUE) :
        p \in {None, Some(<<Num(5)>>), Some(<<Word, Num(3)>>),
               Some(<<Num(1), Num(2), Num(0)>>)} }

UnitShapes ==
    { Shape(None, None, Some("istniejacy"), ValidPos, u, TRUE) :
        u \in {None} \cup {Units(n) : n \in 0..MaxUnits} }

CorruptShapes == { Shape(None, None, Some("istniejacy"), ValidPos, Units(2), FALSE) }

Shapes == FilterShapes \cup PositionShapes \cup UnitShapes \cup CorruptShapes

(* Shapes in a fixed order, so that an input is chosen once per multiset. *)
RECURSIVE SetToSeq(_)
SetToSeq(S) ==
    IF S = {} THEN <<>>
    ELSE LET x == CHOOSE y \in S : TRUE IN <<x>> \o SetToSeq(S \ {x})

ShapeSeq == SetToSeq(Shapes)

(* A row with the shape of the schema; id is the record's bt:lokalnyId. *)
Address(id, s) ==
    ("gml:identifier" :> Some(id)) @@
    ("prg-ad:idIIP" :> Some("bt:BT_Identyfikator" :> Some(
        ("bt:lokalnyId" :> Some(id)) @@
        ("bt:przestrzenNazw" :> Some("PL.PZGIK.200")) @@
        ("bt:wersjaId" :> Some(1))))) @@
    ("prg-ad:cyklZycia" :> Some("bt:BT_CyklZyciaInfo" :> Some(
        ("bt:poczatekWersjiObiektu" :> Some(1)) @@
        ("bt:koniecWersjiObiektu" :> s.koniec)))) @@
    ("prg-ad:waznyOd" :> Some(1)) @@
    ("prg-ad:waznyDo" :> s.waznyDo) @@
    ("prg-ad:jednostkaAdmnistracyjna" :> s.units) @@
    ("prg-ad:miejscowosc" :> Some("miejscowosc")) @@
    ("prg-ad:czescMiejscowosci" :> None) @@
    ("prg-ad:ulica" :> Some("ulica")) @@
    ("prg-ad:numerPorzadkowy" :> Some("1A")) @@
    ("prg-ad:kodPocztowy" :> Some("00-001")) @@
    ("prg-ad:status" :> s.status) @@
    ("prg-ad:pozycja" :>
        IF IsNull(s.pos) THEN None
        ELSE Some("gml:Point" :> Some("gml:pos" :> s.pos))) @@
    ("prg-ad:komponent" :> Some(<<Some("_xlink:href" :> Some("#komponent"))>>)) @@
    ("prg-ad:obiektEMUiA" :> Some("_xlink:href" :> Some("#emuia")))

Element(id, s) == [wellformed |-> s.wellformed, row |-> Address(id, s)]

NoDF == [cols |-> {}, rows |-> <<>>, raises |-> "none"]

(* ------------------------- column expressions -------------------------- *)
RECURSIVE GetField(_, _)
GetField(v, path) ==
    IF path = <<>> THEN v
    ELSE IF IsNull(v) THEN None
    ELSE GetField(Get(v)[Head(path)], Tail(path))

(* f.col("a.b.c") on one row *)
Col(row, path) == GetField(row[Head(path)], Tail(path))

(* col[i]: out of range or a null array gives NULL (spark.sql.ansi off) *)
GetArrayItem(v, i) ==
    IF IsNull(v) THEN None
    ELSE IF i + 1 <= Len(Get(v)) THEN Get(v)[i + 1]
    ELSE None

(* a != b in SQL: NULL when either side is NULL *)
NotEqual(a, b) == IF IsNull(a) \/ IsNull(b) THEN None ELSE Some(Get(a) # Get(b))

(* df.where(cond), cond the condition's value on each row: keeps the rows *)
(* whose condition is TRUE, not FALSE and not NULL                        *)
RECURSIVE Keep(_, _)
Keep(rows, cond) ==
    IF rows = <<>> THEN <<>>
    ELSE (IF Head(cond) = Some(TRUE) THEN <<Head(rows)>> ELSE <<>>)
            \o Keep(Tail(rows), Tail(cond))

Where(d, cond) == [d EXCEPT !.rows = Keep(d.rows, cond)]

(* col.isNull() on every row of a frame *)
IsNullColumn(d, path) == [i \in 1..Len(d.rows) |-> Some(IsNull(Col(d.rows[i], path)))]

Drop(d, names) ==
    [d EXCEPT !.cols = d.cols \ names,
              !.rows = [i \in 1..Len(d.rows) |->
                           [c \in (d.cols \ names) |-> d.rows[i][c]]]]

E(path, item, alias) == [path |-> path, item |-> item, alias |-> alias]

Eval(row, e) ==
    IF e.item < 0 THEN Col(row, e.path)
    ELSE GetArrayItem(Col(row, e.path), e.item)

Resolves(d, exprs) == \A i \in 1..Len(exprs) : Head(exprs[i].path) \in d.cols

Select(d, exprs) ==
    LET aliases == {exprs[i].alias : i \in 1..Len(exprs)}
        expr(a) == exprs[CHOOSE i \in 1..Len(exprs) : exprs[i].alias = a]
    IN [d EXCEPT !.cols = aliases,
                 !.rows = [i \in 1..Len(d.rows) |->
                              [a \in aliases |-> Eval(d.rows[i], expr(a))]]]

(* ----------------------------- read_xml -------------------------------- *)
(* FAILFAST: one record that does not parse against the schema fails the   *)
(* whole read, when the data is scanned.                                   *)
read_xml(x) ==
    [cols |-> SchemaColumns,
     rows |-> LET ok == SelectSeq(x, LAMBDA e : e.wellformed)
              IN [i \in 1..Len(ok) |-> ok[i].row],
     raises |-> IF \E i \in 1..Len(x) : ~x[i].wellformed
                THEN "ParseError" ELSE "none"]

(* ----------------------------- the filters ----------------------------- *)
KoniecWersjiObiektu ==
    <<"prg-ad:cyklZycia", "bt:BT_CyklZyciaInfo", "bt:koniecWersjiObiektu">>

keep_closed_objects(d) == d

remove_closed_objects(d) ==
    LET open == Where(d, IsNullColumn(d, KoniecWersjiObiektu))
    IN Where(open, IsNullColumn(open, <<"prg-ad:waznyDo">>))

keep_planned_addresses(d) == d

remove_planned_addresses(d) ==
    Where(d, [i \in 1..Len(d.rows) |->
                 NotEqual(Col(d.rows[i], <<"prg-ad:status">>), Some("prognozowany"))])

remove_unneeded_ids(d) ==
    Drop(d, {"gml:identifier", "prg-ad:komponent", "prg-ad:obiektEMUiA"})

(* ------------------------------ geometry ------------------------------- *)
(* A coordinate is a number <<n>> or, after a reprojection, the term       *)
(* <<axis, from, to, x, y>>: the axis ("lon" or "lat") of the image of     *)
(* (x, y) under the transformation between the two reference systems.      *)
Raw(n) == <<n>>
Projected(axis, from, target, c) == <<axis, from, target, c[1][1], c[2][1]>>

Point(srid, coords) == [kind |-> "Point", srid |-> srid, coords |-> coords]

(* concat('POINT(', pos, ')'): NULL when an argument is NULL *)
PointWKT(pos) ==
    IF IsNull(pos) THEN None
    ELSE Some(<<Tok("POINT"), Tok("(")>> \o Get(pos) \o <<Tok(")")>>)

(* Well-known text of a point: POINT ( x y ) or, in the old syntax, x y z *)
WKTParses(w) ==
    /\ Len(w) \in {5, 6}
    /\ w[1] = Tok("POINT") /\ w[2] = Tok("(") /\ w[Len(w)] = Tok(")")
    /\ \A i \in 3..(Len(w) - 1) : w[i].k = "num"

(* NULL in, NULL out; text that does not parse raises (see RaisesOn) *)
ST_GeomFromWKT(wkt) ==
    IF IsNull(wkt) \/ ~WKTParses(Get(wkt)) THEN None
    ELSE LET w == Get(wkt)
         IN Some(Point(0, [i \in 1..(Len(w) - 3) |-> Raw(w[i + 2].v)]))

ST_FlipCoordinates(g) ==
    IF IsNull(g) THEN None
    ELSE LET c == Get(g).coords
         IN Some([Get(g) EXCEPT !.coords = [c EXCEPT ![1] = c[2], ![2] = c[1]]])

ST_SetSRID(g, srid) ==
    IF IsNull(g) THEN None ELSE Some([Get(g) EXCEPT !.srid = srid])

(* Source system: the geometry's own SRID.  Output axis order lon, lat.    *)
ST_Transform(g, target) ==
    IF IsNull(g) THEN None
    ELSE LET p == Get(g)
         IN Some(Point(target,
                       [i \in 1..Len(p.coords) |->
                           IF i = 1 THEN Projected("lon", p.srid, target, p.coords)
                           ELSE IF i = 2 THEN Projected("lat", p.srid, target, p.coords)
                           ELSE p.coords[i]]))

GmlPos == <<"prg-ad:pozycja", "gml:Point", "gml:pos">>

GeometryNoFlip(row) ==
    ST_Transform(ST_SetSRID(ST_GeomFromWKT(PointWKT(Col(row, GmlPos))),
                            SRID_2180),
                 EPSG_4326)

GeometryExpr(row) ==
    ST_Transform(
        ST_SetSRID(
            ST_FlipCoordinates(ST_GeomFromWKT(PointWKT(Col(row, GmlPos)))),
            SRID_2180),
        EPSG_4326)

RaisesOn(row) ==
    LET wkt == PointWKT(Col(row, GmlPos))
    IN ~IsNull(wkt) /\ ~WKTParses(Get(wkt))

(* df.withColumn(name, expr): values is the expression's value on each    *)
(* row, raises whether its evaluation raises on some row                  *)
WithColumn(d, name, values, raises) ==
    [cols |-> d.cols \cup {name},
     rows |-> [i \in 1..Len(d.rows) |->
                  [c \in d.cols \cup {name} |->
                      IF c = name THEN values[i] ELSE d.rows[i][c]]],
     raises |-> IF d.raises # "none" THEN d.raises
                ELSE IF raises THEN "ParseException" ELSE "none"]

parse_point_geometry(d) ==
    Drop(WithColumn(d, "geometry",
                    [i \in 1..Len(d.rows) |-> GeometryExpr(d.rows[i])],
                    \E i \in 1..Len(d.rows) : RaisesOn(d.rows[i])),
         {"prg-ad:pozycja"})

(* ----------------------------- projections ---------------------------- *)
IdIIP(field) == <<"prg-ad:idIIP", "bt:BT_Identyfikator", field>>
CyklZycia(field) == <<"prg-ad:cyklZycia", "bt:BT_CyklZyciaInfo", field>>

OvertureColumns ==
    << E(IdIIP("bt:przestrzenNazw"), -1, "id_namespace"),
       E(IdIIP("bt:lokalnyId"), -1, "unique_id"),
       E(IdIIP("bt:wersjaId"), -1, "object_timestamp"),
       E(<<"prg-ad:jednostkaAdmnistracyjna">>, -1, "administrative_units"),
       E(<<"prg-ad:miejscowosc">>, -1, "place"),
       E(<<"prg-ad:czescMiejscowosci">>, -1, "place_part"),
       E(<<"prg-ad:ulica">>, -1, "street"),
       E(<<"prg-ad:numerPorzadkowy">>, -1, "housenumber"),
       E(<<"prg-ad:kodPocztowy">>, -1, "postal_code"),
       E(<<"geometry">>, -1, "geometry") >>

UnitColumn(i) == "jednostkaAdmnistracyjna_" \o ToString(i)

UnitColumnsFrom1 ==
    [i \in 1..RANGE_4 |->
        E(<<"prg-ad:jednostkaAdmnistracyjna">>, i, UnitColumn(i - 1))]

UnitColumns ==
    [i \in 1..RANGE_4 |->
        E(<<"prg-ad:jednostkaAdmnistracyjna">>, i - 1, UnitColumn(i - 1))]

OsmpolandColumns ==
    << E(IdIIP("bt:przestrzenNazw"), -1, "przestrzenNazw"),
       E(IdIIP("bt:lokalnyId"), -1, "lokalnyId"),
       E(IdIIP("bt:wersjaId"), -1, "wersjaId") >> \o
    UnitColumns \o
    << E(<<"prg-ad:miejscowosc">>, -1, "miejscowosc"),
       E(<<"prg-ad:czescMiejscowosci">>, -1, "czescMiejscowosci"),
       E(<<"prg-ad:ulica">>, -1, "ulica"),
       E(<<"prg-ad:numerPorzadkowy">>, -1, "numerPorzadkowy"),
       E(<<"prg-ad:kodPocztowy">>, -1, "kodPocztowy"),
       E(<<"prg-ad:status">>, -1, "status"),
       E(<<"geometry">>, -1, "geometry"),
       E(<<"gml:identifier">>, -1, "gml:identifier"),
       E(<<"prg-ad:komponent">>, -1, "prg-ad:komponent"),
       E(<<"prg-ad:obiektEMUiA">>, -1, "prg-ad:obiektEMUiA"),
       E(CyklZycia("bt:poczatekWersjiObiektu"), -1, "poczatekWersjiObiektu"),
       E(CyklZycia("bt:koniecWersjiObiektu"), -1, "koniecWersjiObiektu"),
       E(<<"prg-ad:waznyOd">>, -1, "prg-ad:waznyOd"),
       E(<<"prg-ad:waznyDo">>, -1, "prg-ad:waznyDo") >>

select_cols_for_overture(d) == Select(d, OvertureColumns)

select_cols_for_osmpoland(d) == Select(d, OsmpolandColumns)

(* ------------------------- process_gml.py __main__ --------------------- *)
Chars(n) == IF n = 1 THEN << "o","v","e","r","t","u","r","e" >>
            ELSE IF n = 2 THEN << "o","s","m","p","o","l","a","n","d" >>
            ELSE IF n = 3 THEN << " ","O","v","e","r","t","u","r","e"," " >>
            ELSE IF n = 4 THEN << "\t","O","S","M","P","O","L","A","N","D","\n" >>
            ELSE IF n = 5 THEN << "b","o","g","u","s" >>
            ELSE IF n = 6 THEN << "o","v","e","r"," ","t","u","r","e" >>
            ELSE IF n = 7 THEN << "o","s","m","p","o","l","a","n","d","s" >>
            ELSE IF n = 8 THEN << " " >>
            ELSE << >>

Arguments == {Chars(n) : n \in 1..9}

Program == <<"p","r","o","c","e","s","s","_","g","m","l",".","p","y">>

(* sys.argv: the program, then the arguments given *)
CommandLines == {<<Program>>} \cup {<<Program, a>> : a \in Arguments}

NoOutput == [state |-> "absent", cols |-> {}, rows |-> <<>>, crs |-> "none"]
PriorOutput == [state |-> "prior", cols |-> {}, rows |-> <<>>, crs |-> "none"]

(* The documents of data_xml, one record per element, up to record order. *)
Inputs ==
    UNION { { [i \in 1..n |-> Element(i, ShapeSeq[idx[i]])] :
                idx \in { f \in [1..n -> 1..Len(ShapeSeq)] :
                            \A i \in 1..n, j \in 1..n : i <= j => f[i] <= f[j] } }
            : n \in 0..MaxRecords }

Fail(why) == /\ pc' = "failed"
             /\ failure' = why

(* lines 176-180 *)
ValidateMode ==
    /\ pc = "start"
    /\ IF Len(argv) = 1
       THEN /\ Fail("AttributeError")
            /\ UNCHANGED mode
       ELSE LET m == Lower(Strip(argv[2]))
            IN /\ mode' = m
               /\ IF m \notin MODES
                  THEN Fail("ValueError: mode")
                  ELSE pc' = "validated" /\ UNCHANGED failure
    /\ UNCHANGED <<argv, spark, xml, df, num_rows, output>>
    /\ UNCHANGED unzip_vars

(* line 184 *)
get_sedona_context ==
    /\ pc = "validated"
    /\ spark' = TRUE
    /\ pc' = "session"
    /\ UNCHANGED <<argv, mode, xml, df, num_rows, output, failure>>
    /\ UNCHANGED unzip_vars

(* line 186 *)
ReadXml ==
    /\ pc = "session"
    /\ df' = read_xml(xml)
    /\ pc' = "read"
    /\ UNCHANGED <<argv, mode, spark, xml, num_rows, output, failure>>
    /\ UNCHANGED unzip_vars

FilterInEveryMode(d) ==
    remove_planned_addresses(remove_closed_objects(remove_unneeded_ids(d)))

FilterClosedInEveryMode(d) ==
    IF mode = MODE_OVERTURE
    THEN remove_planned_addresses(remove_closed_objects(remove_unneeded_ids(d)))
    ELSE remove_closed_objects(d)

(* lines 187-190 *)
FilterStage(d) ==
    IF mode = MODE_OVERTURE
    THEN remove_planned_addresses(remove_closed_objects(remove_unneeded_ids(d)))
    ELSE d

Filter ==
    /\ pc = "read"
    /\ df' = FilterStage(df)
    /\ pc' = "filtered"
    /\ UNCHANGED <<argv, mode, spark, xml, num_rows, output, failure>>
    /\ UNCHANGED unzip_vars

(* line 191 *)
ParseGeometry ==
    /\ pc = "filtered"
    /\ IF GmlPos[1] \in df.cols
       THEN /\ df' = parse_point_geometry(df)
            /\ pc' = "geometry"
            /\ UNCHANGED failure
       ELSE /\ Fail("AnalysisException")
            /\ UNCHANGED df
    /\ UNCHANGED <<argv, mode, spark, xml, num_rows, output>>
    /\ UNCHANGED unzip_vars

(* lines 193-198 *)
Project ==
    /\ pc = "geometry"
    /\ IF mode = MODE_OVERTURE
       THEN IF Resolves(df, OvertureColumns)
            THEN /\ df' = select_cols_for_overture(df)
                 /\ pc' = "projected"
                 /\ UNCHANGED failure
            ELSE /\ Fail("AnalysisException")
                 /\ UNCHANGED df
       ELSE IF mode = MODE_OSMPOLAND
       THEN IF Resolves(df, OsmpolandColumns)
            THEN /\ df' = select_cols_for_osmpoland(df)
                 /\ pc' = "projected"
                 /\ UNCHANGED failure
            ELSE /\ Fail("AnalysisException")
                 /\ UNCHANGED df
       ELSE /\ Fail("ValueError: Unknown mode")
            /\ UNCHANGED df
    /\ UNCHANGED <<argv, mode, spark, xml, num_rows, output>>
    /\ UNCHANGED unzip_vars

CountWithoutCheck ==
    /\ pc = "projected"
    /\ num_rows' = Len(df.rows)
    /\ pc' = "counted"
    /\ UNCHANGED <<argv, mode, spark, xml, df, output, failure>>
    /\ UNCHANGED unzip_vars

(* lines 200-203: count() runs the plan, so what a row raises is raised here *)
Count ==
    /\ pc = "projected"
    /\ IF df.raises # "none"
       THEN /\ Fail(df.raises)
            /\ UNCHANGED num_rows
       ELSE /\ num_rows' = Len(df.rows)
            /\ IF Len(df.rows) = 0
               THEN Fail("ValueError: No data to write.")
               ELSE pc' = "counted" /\ UNCHANGED failure
    /\ UNCHANGED <<argv, mode, spark, xml, df, output>>
    /\ UNCHANGED unzip_vars

(* lines 205-317: one file, CRS84 metadata, mode="overwrite" *)
Write ==
    /\ pc = "counted"
    /\ output' = [state |-> "written", cols |-> df.cols, rows |-> df.rows,
                  crs |-> "OGC:CRS84"]
    /\ pc' = "done"
    /\ UNCHANGED <<argv, mode, spark, xml, df, num_rows, failure>>
    /\ UNCHANGED unzip_vars

NoUnzip ==
    /\ zip = <<>> /\ to = <<>> /\ files = <<>> /\ dirs = {} /\ zi = 0
    /\ upc = "idle"

Init ==
    /\ argv \in CommandLines
    /\ xml \in Inputs
    /\ output \in {NoOutput, PriorOutput}
    /\ pc = "start"
    /\ mode = <<>>
    /\ spark = FALSE
    /\ df = NoDF
    /\ num_rows = 0
    /\ failure = "none"
    /\ NoUnzip

Next ==
    \/ ValidateMode
    \/ get_sedona_context
    \/ ReadXml
    \/ Filter
    \/ ParseGeometry
    \/ Project
    \/ Count
    \/ Write

Spec == Init /\ [][Next]_vars

(* ======================== properties of the pipeline =================== *)
Status == <<"prg-ad:status">>
WaznyDo == <<"prg-ad:waznyDo">>
JednostkaAdmnistracyjna == <<"prg-ad:jednostkaAdmnistracyjna">>

WrittenIn(m) == pc = "done" /\ mode = m /\ output.state = "written"

(* the input record with bt:lokalnyId = id *)
Source(id) == xml[Get(id)].row

IsClosed(r) == ~IsNull(Col(r, KoniecWersjiObiektu)) \/ ~IsNull(Col(r, WaznyDo))
IsPlanned(r) == Col(r, Status) = Some("prognozowany")

(* C1: every record of the 'overture' output comes from an input record    *)
(* whose koniecWersjiObiektu is null, whose waznyDo is null and whose      *)
(* status is not 'prognozowany'.                                           *)
C1_FilterSoundness ==
    WrittenIn(MODE_OVERTURE) =>
        \A k \in 1..Len(output.rows) :
            LET r == Source(output.rows[k]["unique_id"])
            IN /\ IsNull(Col(r, KoniecWersjiObiektu))
               /\ IsNull(Col(r, WaznyDo))
               /\ Col(r, Status) # Some("prognozowany")

C1_Witness ==
    /\ WrittenIn(MODE_OVERTURE)
    /\ Len(output.rows) = 1
    /\ \E i \in 1..Len(xml) : IsClosed(xml[i].row) \/ IsPlanned(xml[i].row)

(* C2: in 'overture' mode an input record with null koniecWersjiObiektu,   *)
(* null waznyDo and null status is in the output.                          *)
C2_NullStatusRetained ==
    WrittenIn(MODE_OVERTURE) =>
        \A i \in 1..Len(xml) :
            (~IsClosed(xml[i].row) /\ IsNull(Col(xml[i].row, Status))) =>
                \E k \in 1..Len(output.rows) :
                    output.rows[k]["unique_id"] = Some(i)

SameLetter(c, m) ==
    \/ c = m
    \/ \E i \in 1..Len(LowerCase) : LowerCase[i] = m /\ UpperCase[i] = c

IsModeToken(a) ==
    \E m \in MODES, lead \in 0..Len(a) :
        /\ lead + Len(m) <= Len(a)
        /\ \A i \in 1..lead : a[i] \in Whitespace
        /\ \A i \in 1..Len(m) : SameLetter(a[lead + i], m[i])
        /\ \A i \in (lead + Len(m) + 1)..Len(a) : a[i] \in Whitespace

ArgumentAccepted == Len(argv) > 1 /\ IsModeToken(argv[2])

ConfigurationErrors == {"AttributeError", "ValueError: mode"}

(* C3: the run argument is accepted exactly when it is one of the two      *)
(* modes, in any letter case, between leading and trailing whitespace; a   *)
(* run whose argument is missing or not accepted fails with a              *)
(* configuration error with no session, nothing read and nothing written.  *)
C3_ModeValidationFirst ==
    /\ (pc # "start" /\ ~ArgumentAccepted) =>
          /\ pc = "failed" /\ failure \in ConfigurationErrors
          /\ ~spark /\ df = NoDF /\ output.state # "written"
    /\ (pc # "start" /\ ArgumentAccepted) =>
          /\ failure \notin ConfigurationErrors
          /\ mode \in MODES
    /\ (Len(argv) = 1 /\ pc # "start") => failure = "AttributeError"

C3_Witness ==
    /\ pc = "failed" /\ failure = "ValueError: mode"
    /\ Len(xml) > 0
    /\ Strip(argv[2]) # argv[2]

(* C4: the output changes only in the write step, which is taken only      *)
(* after a count of more than zero rows in a run with a valid mode, a      *)
(* session, and no error raised by read, filter, geometry or projection; a *)
(* run that counts zero rows fails and leaves the output as it was.        *)
C4_EmptyResultLeavesOutput ==
    /\ [](output.state = "written" =>
            /\ pc = "done" /\ failure = "none"
            /\ num_rows > 0 /\ num_rows = Len(output.rows)
            /\ mode \in MODES /\ spark /\ df.raises = "none")
    /\ []((pc \in {"counted", "done", "failed"} /\ df.raises = "none"
             /\ failure \notin ConfigurationErrors /\ Len(df.rows) = 0
             /\ failure # "AnalysisException") =>
            (pc = "failed" /\ failure = "ValueError: No data to write."))
    /\ [][(output' # output) =>
            (pc = "counted" /\ pc' = "done" /\ num_rows > 0)]_vars
    /\ [][(pc' = "failed") => (output' = output)]_vars

C4_Witness ==
    /\ pc = "failed" /\ failure = "ValueError: No data to write."
    /\ output = PriorOutput
    /\ Len(xml) > 0

(* C5: the 'osmpoland' output has one record per input record, closed and  *)
(* planned ones included, carrying the input's version end, validity end   *)
(* and status; the 'overture' output has no record whose input has a       *)
(* non-null koniecWersjiObiektu.                                           *)
C5_OsmpolandKeepsEveryRecord ==
    /\ WrittenIn(MODE_OSMPOLAND) =>
          /\ Len(output.rows) = Len(xml)
          /\ \A i \in 1..Len(xml) :
                \E k \in 1..Len(output.rows) :
                    LET o == output.rows[k]
                    IN /\ o["lokalnyId"] = Some(i)
                       /\ o["koniecWersjiObiektu"] = Col(xml[i].row, KoniecWersjiObiektu)
                       /\ o["prg-ad:waznyDo"] = Col(xml[i].row, WaznyDo)
                       /\ o["status"] = Col(xml[i].row, Status)
    /\ WrittenIn(MODE_OVERTURE) =>
          \A i \in 1..Len(xml) :
              ~IsNull(Col(xml[i].row, KoniecWersjiObiektu)) =>
                  \A k \in 1..Len(output.rows) :
                      output.rows[k]["unique_id"] # Some(i)

C5_Witness ==
    /\ WrittenIn(MODE_OSMPOLAND)
    /\ \E i \in 1..Len(xml) :
          /\ ~IsNull(Col(xml[i].row, KoniecWersjiObiektu))
          /\ ~IsNull(Col(xml[i].row, WaznyDo))
          /\ IsPlanned(xml[i].row)

(* C6: every record handed to the writer has a geometry that is a point,   *)
(* never null.                                                             *)
C6_GeometryNeverNull ==
    (pc = "done" /\ output.state = "written") =>
        \A k \in 1..Len(output.rows) :
            /\ ~IsNull(output.rows[k]["geometry"])
            /\ Get(output.rows[k]["geometry"]).kind = "Point"

TwoNumbers(pos) ==
    /\ ~IsNull(pos) /\ Len(Get(pos)) = 2
    /\ \A i \in 1..2 : Get(pos)[i].k = "num"

(* C7: after the geometry stage a record whose position text is 'a b' has  *)
(* as geometry the image in EPSG:4326 of the point (x = b, y = a) of       *)
(* EPSG:2180; prg-ad:pozycja is gone, geometry is added, and every other   *)
(* column has the value it had when read.                                  *)
C7_FlipThenSetSRIDThenTransform ==
    pc = "geometry" =>
        /\ "prg-ad:pozycja" \notin df.cols
        /\ "geometry" \in df.cols
        /\ df.cols \ {"geometry"} =
              IF mode = MODE_OVERTURE
              THEN SchemaColumns \ {"prg-ad:pozycja", "gml:identifier",
                                    "prg-ad:komponent", "prg-ad:obiektEMUiA"}
              ELSE SchemaColumns \ {"prg-ad:pozycja"}
        /\ \A k \in 1..Len(df.rows) :
              LET row == df.rows[k]
                  src == Source(Col(row, IdIIP("bt:lokalnyId")))
                  pos == Col(src, GmlPos)
              IN /\ DOMAIN row = df.cols
                 /\ \A c \in df.cols \ {"geometry"} : row[c] = src[c]
                 /\ TwoNumbers(pos) =>
                       LET a == Get(pos)[1].v
                           b == Get(pos)[2].v
                       IN row["geometry"] =
                            Some([kind |-> "Point", srid |-> 4326,
                                  coords |-> << <<"lon", 2180, 4326, b, a>>,
                                                <<"lat", 2180, 4326, b, a>> >>])

C7_Witness ==
    /\ pc = "geometry"
    /\ \E k \in 1..Len(df.rows) :
          TwoNumbers(Col(Source(Col(df.rows[k], IdIIP("bt:lokalnyId"))), GmlPos))

UnitNames == {"jednostkaAdmnistracyjna_0", "jednostkaAdmnistracyjna_1",
              "jednostkaAdmnistracyjna_2", "jednostkaAdmnistracyjna_3"}

NameOfUnit(i) ==
    CASE i = 0 -> "jednostkaAdmnistracyjna_0"
      [] i = 1 -> "jednostkaAdmnistracyjna_1"
      [] i = 2 -> "jednostkaAdmnistracyjna_2"
      [] i = 3 -> "jednostkaAdmnistracyjna_3"

(* C8: in the 'osmpoland' output column jednostkaAdmnistracyjna_i, for i   *)
(* in 0..3, is element i of the record's administrative units when there   *)
(* are more than i of them and null otherwise, also for a null or empty    *)
(* sequence, and these are the only administrative-unit columns; the       *)
(* 'overture' output has the whole sequence in administrative_units.       *)
C8_FourPositionalUnitColumns ==
    /\ WrittenIn(MODE_OSMPOLAND) =>
          /\ UnitNames \subseteq output.cols
          /\ output.cols \cap ({UnitColumn(i) : i \in 0..(MaxUnits + 1)}
                 \cup {"administrative_units", "prg-ad:jednostkaAdmnistracyjna"})
                = UnitNames
          /\ \A k \in 1..Len(output.rows), i \in 0..3 :
                LET o == output.rows[k]
                    u == Col(Source(o["lokalnyId"]), JednostkaAdmnistracyjna)
                IN o[NameOfUnit(i)] =
                      IF ~IsNull(u) /\ Len(Get(u)) > i THEN Get(u)[i + 1] ELSE None
    /\ WrittenIn(MODE_OVERTURE) =>
          /\ output.cols \cap UnitNames = {}
          /\ \A k \in 1..Len(output.rows) :
                LET o == output.rows[k]
                IN o["administrative_units"] =
                      Col(Source(o["unique_id"]), JednostkaAdmnistracyjna)
    /\ (pc = "failed" /\ mode = MODE_OSMPOLAND) =>
          failure \in {"ParseError", "ParseException", "ValueError: No data to write."}

C8_Witness ==
    /\ WrittenIn(MODE_OSMPOLAND)
    /\ \E i \in 1..Len(xml) : IsNull(Col(xml[i].row, JednostkaAdmnistracyjna))
    /\ \E i \in 1..Len(xml) :
          LET u == Col(xml[i].row, JednostkaAdmnistracyjna)
          IN ~IsNull(u) /\ Len(Get(u)) > 4

(* the field names of the two projections, as the claim lists them *)
OvertureFields ==
    {"id_namespace", "unique_id", "object_timestamp", "administrative_units",
     "place", "place_part", "street", "housenumber", "postal_code", "geometry"}

OsmpolandFields ==
    {"przestrzenNazw", "lokalnyId", "wersjaId"} \cup UnitNames \cup
    {"miejscowosc", "czescMiejscowosci", "ulica", "numerPorzadkowy",
     "kodPocztowy", "status", "geometry", "gml:identifier", "prg-ad:komponent",
     "prg-ad:obiektEMUiA", "poczatekWersjiObiektu", "koniecWersjiObiektu",
     "prg-ad:waznyOd", "prg-ad:waznyDo"}

FieldsOfEveryRecord(F) ==
    /\ output.cols = F
    /\ \A k \in 1..Len(output.rows) : DOMAIN output.rows[k] = F

ProjectionTotalAndExclusive(n_osmpoland) ==
    /\ WrittenIn(MODE_OVERTURE) =>
          FieldsOfEveryRecord(OvertureFields) /\ Cardinality(output.cols) = 10
    /\ WrittenIn(MODE_OSMPOLAND) =>
          FieldsOfEveryRecord(OsmpolandFields)
             /\ Cardinality(output.cols) = n_osmpoland
    /\ failure # "AnalysisException"
    /\ (pc = "done" /\ mode = MODE_OVERTURE) =>
          output.cols \cap OsmpolandFields = {"geometry"}
    /\ (pc = "done" /\ mode = MODE_OSMPOLAND) =>
          output.cols \cap OvertureFields = {"geometry"}

(* C9 as stated: every 'overture' record has exactly the 10 fields, every  *)
(* 'osmpoland' record exactly 22 fields, every selected column exists when *)
(* it is selected, and the two outputs share no field name but geometry.   *)
C9_Original == ProjectionTotalAndExclusive(22)

(* C9 as amended: the 'osmpoland' record has exactly the 21 fields that    *)
(* the claim lists; the rest as stated.                                    *)
C9_ProjectionTotalAndExclusive == ProjectionTotalAndExclusive(21)

C9_Witness ==
    /\ WrittenIn(MODE_OSMPOLAND)
    /\ Len(output.rows) = MaxRecords

(* ===================== download_and_unpack.py ========================== *)
(* A path is the sequence of its segments from the file system's root; a   *)
(* segment, like an entry name, is a sequence of characters.               *)
this_dir == << <<"r","e","p","o">> >>
xml_dir == this_dir \o << <<"d","a","t","a","_","x","m","l">> >>
other_dir == this_dir \o << <<"o","u","t">> >>

NameChars == {"a", "b", "_", "/"}

(* Names of file entries: relative, no empty segment, no trailing slash *)
EntryNames ==
    UNION { { s \in [1..n -> NameChars] :
                /\ s[1] # "/" /\ s[n] # "/"
                /\ \A i \in 1..(n - 1) : ~(s[i] = "/" /\ s[i + 1] = "/") }
            : n \in 1..MaxNameLen }

Archives == UNION { [1..n -> EntryNames] : n \in 0..MaxEntries }

(* name.split("_")[-1:][0] *)
LastAfterUnderscore(s) ==
    LET at == {i \in 1..Len(s) : s[i] = "_"}
    IN IF at = {} THEN s
       ELSE SubSeq(s, (CHOOSE i \in at : \A j \in at : j <= i) + 1, Len(s))

(* the segments of a name, empty ones dropped *)
RECURSIVE Segments(_)
Segments(s) ==
    IF s = <<>> THEN <<>>
    ELSE IF Head(s) = "/" THEN Segments(Tail(s))
    ELSE LET stops == {i \in 1..Len(s) : s[i] = "/"} \cup {Len(s) + 1}
             n == CHOOSE i \in stops : \A j \in stops : i <= j
         IN <<SubSeq(s, 1, n - 1)>> \o Segments(SubSeq(s, n, Len(s)))

(* pathlib: base / name; a name that starts with a slash replaces base *)
PathJoin(base, name) ==
    IF name # <<>> /\ Head(name) = "/" THEN Segments(name)
    ELSE base \o Segments(name)

Parent(p) == SubSeq(p, 1, Len(p) - 1)
Ancestors(p) == {SubSeq(p, 1, k) : k \in 0..(Len(p) - 1)}

Put(f, p, c) == [q \in DOMAIN f \cup {p} |-> IF q = p THEN c ELSE f[q]]
Remove(f, p) == [q \in DOMAIN f \ {p} |-> f[q]]

(* ZipFile.extract(member, path): the member's name below path, the        *)
(* directories on the way created, an existing file replaced               *)
ExtractTarget(path, name) == path \o Segments(name)

CanExtract(fs, ds, target) ==
    /\ \A a \in Ancestors(target) : a \notin DOMAIN fs
    /\ target \notin ds

(* os.rename(src, dst) of a file, POSIX: an existing file is replaced *)
CanRename(fs, ds, src, dst) ==
    /\ src \in DOMAIN fs
    /\ \/ dst = src
       \/ dst \notin ds /\ dst # <<>> /\ Parent(dst) \in ds

Rename(fs, src, dst) ==
    IF dst = src THEN fs ELSE Put(Remove(fs, src), dst, fs[src])

(* lines 33-37: one entry of the archive; the content of a file is the     *)
(* index of the entry it was extracted from                                *)
UnzipEntry ==
    /\ upc = "unpacking"
    /\ zi <= Len(zip)
    /\ LET name == zip[zi]
           new_name == LastAfterUnderscore(name)
           target == ExtractTarget(xml_dir, name)
           src == PathJoin(xml_dir, name)
           dst == PathJoin(xml_dir, new_name)
       IN IF ~CanExtract(files, dirs, target)
          THEN /\ upc' = "failed"
               /\ UNCHANGED <<files, dirs, zi>>
          ELSE LET extracted == Put(files, target, zi)
                   made == dirs \cup Ancestors(target)
               IN /\ dirs' = made
                  /\ IF CanRename(extracted, made, src, dst)
                     THEN /\ files' = Rename(extracted, src, dst)
                          /\ zi' = zi + 1
                          /\ UNCHANGED upc
                     ELSE /\ files' = extracted
                          /\ upc' = "failed"
                          /\ UNCHANGED zi
    /\ UNCHANGED <<zip, to>>
    /\ UNCHANGED pipeline_vars

(* line 38 *)
UnzipFinish ==
    /\ upc = "unpacking"
    /\ zi > Len(zip)
    /\ upc' = "done"
    /\ UNCHANGED <<zip, to, files, dirs, zi>>
    /\ UNCHANGED pipeline_vars

InitUnzip ==
    /\ zip \in Archives
    /\ to \in {xml_dir, other_dir}
    /\ files = <<>>
    /\ dirs = {<<>>, this_dir, xml_dir, other_dir}
    /\ zi = 1
    /\ upc = "unpacking"
    /\ argv = <<Program>> /\ xml = <<>> /\ output = NoOutput /\ pc = "start"
    /\ mode = <<>> /\ spark = FALSE /\ df = NoDF /\ num_rows = 0
    /\ failure = "none"

NextUnzip ==
    \/ UnzipEntry
    \/ UnzipFinish

SpecUnzip == InitUnzip /\ [][NextUnzip]_vars

(* C10: when every entry has been processed, the directory given as 'to'   *)
(* holds, directly in it, one file per archive entry, named by what        *)
(* follows the entry name's last underscore and holding that entry, and    *)
(* has no sub-directory.                                                   *)
C10_FlatOneFilePerEntry ==
    upc = "done" =>
        /\ \A i \in 1..Len(zip) :
              LET p == to \o <<LastAfterUnderscore(zip[i])>>
              IN p \in DOMAIN files /\ files[p] = i
        /\ Cardinality({p \in DOMAIN files : Parent(p) = to}) = Len(zip)
        /\ \A d \in dirs : ~(Len(d) > Len(to) /\ SubSeq(d, 1, Len(to)) = to)

====
